---- MODULE Spec2Model ----
(***************************************************************************)
(* Model of RumorClassificationWorkflow.run (src/src/index.ts): the six    *)
(* step.do stages, the bulk inference provider they talk to and the trace  *)
(* sink, under attempt failures and restarts of the workflow instance.     *)
(***************************************************************************)
EXTENDS Integers, Sequences, FiniteSets, TLC

\* ------------------------------------------------------------------ bounds
\* retries.limit of poll-batch-completion is 1440 in the source; the model
\* scales it down, every formula is stated relative to it.
PollRetryLimit == 2
\* retry limit of a step.do that passes no policy (scaled down likewise)
DefaultRetryLimit == 1
\* transport failures and instance restarts the environment may inject
MaxFaults == 2
\* lines of a provider output file, in the pipeline specification and in the
\* evaluator specification
MaxLines == 2
MaxResults == 2

\* ------------------------------------------------------------ stage names
CategoriesStage == "load-cofacts-categories"
DatasetStage == "load-langfuse-dataset"
UploadStage == "upload-batch-to-openai"
TriggerStage == "trigger-batch-api"
PollStage == "poll-batch-completion"
EvaluateStage == "evaluate-and-log-results"

StageNames ==
    {CategoriesStage, DatasetStage, UploadStage, TriggerStage, PollStage, EvaluateStage}

\* run() awaiting only the categories loader before the upload stage
PredsDatasetUnawaited(s) ==
    CASE s = CategoriesStage -> {}
      [] s = DatasetStage -> {}
      [] s = UploadStage -> {CategoriesStage}
      [] s = TriggerStage -> {CategoriesStage, UploadStage}
      [] s = PollStage -> {CategoriesStage, UploadStage, TriggerStage}
      [] s = EvaluateStage -> StageNames \ {EvaluateStage}

\* the stages whose results run() has awaited before it calls step.do(s)
Preds(s) ==
    CASE s = CategoriesStage -> {}
      [] s = DatasetStage -> {}
      [] s = UploadStage -> {CategoriesStage, DatasetStage}
      [] s = TriggerStage -> {CategoriesStage, DatasetStage, UploadStage}
      [] s = PollStage -> {CategoriesStage, DatasetStage, UploadStage, TriggerStage}
      [] s = EvaluateStage -> StageNames \ {EvaluateStage}

\* retries.limit of the stage's step.do
RetryLimit(s) == IF s = PollStage THEN PollRetryLimit ELSE DefaultRetryLimit

\* ------------------------------------------------------------------- data
Absent == "<absent>"
Titles == {"true", "false"}

\* what the dataset source stores as expectedOutput: a plain string, an
\* object carrying a category field, or nothing
RawExpected ==
    {[kind |-> "string", value |-> "true"],
     [kind |-> "object", value |-> "true"],
     [kind |-> "none", value |-> Absent]}

\* item.expectedOutput?.category || item.expectedOutput
NormalizeExpected(e) == IF e.kind = "none" THEN Absent ELSE e.value

NormalizeItem(raw) ==
    [id |-> raw.id, expectedCategory |-> NormalizeExpected(raw.expectedOutput)]

\* dataset.items.map(...)
RECURSIVE MapItems(_)
MapItems(raws) ==
    IF raws = <<>> THEN <<>>
    ELSE <<NormalizeItem(Head(raws))>> \o MapItems(Tail(raws))

SeqsUpTo(S, n) == UNION {[1..k -> S] : k \in 0..n}

\* dataset snapshots over the item ids `ids`: ids are unique within a snapshot
SnapshotsOver(ids) ==
    {d \in SeqsUpTo([id : ids, expectedOutput : RawExpected], Cardinality(ids)) :
        \A i, j \in 1..Len(d) : d[i].id = d[j].id => i = j}

\* lines of the provider's output file: an envelope whose payload decodes, an
\* envelope that is no JSON, an envelope whose embedded content is no JSON
GoodLines(ids, titles) == [kind : {"ok"}, id : ids, category : titles]
BadLines ==
    {[kind |-> "badEnvelope", id |-> Absent, category |-> Absent],
     [kind |-> "badPayload", id |-> "a", category |-> Absent]}
EmptyLine == [kind |-> "empty", id |-> Absent, category |-> Absent]

\* what the pipeline specification draws from: one item id, and output files
\* that echo it
Snapshots == SnapshotsOver({"a"})
OutputFiles == SeqsUpTo(GoodLines({"a"}, {"true"}) \cup BadLines, MaxLines)

NonTerminal == {"queued", "running"}
FailureTerminal == {"failed", "expired", "cancelled"}
Statuses == NonTerminal \cup {"completed"} \cup FailureTerminal

VARIABLES
    run,            \* "running", "complete" or "errored"
    memo,           \* stages whose result the engine has persisted
    loc,            \* stages whose result the current incarnation has bound
    att,            \* failed attempts so far of each stage still to complete
    faults,         \* transport failures and restarts injected so far
    categories, datasetItems, batchUpload, batchJob, batchResult, evaluation,
    upPc, trPc,     \* position inside the upload / trigger work function
    files, jobs,    \* files and jobs the provider holds
    jobStatus, outputFile,      \* of the job the run polls
    queries, waits, statusLog,  \* history of the poll stage
    evPc, evalIdx, correctPredictions, totalPredictions, evaluationResults,
    pending,        \* records the stage's Langfuse client holds unflushed
    sink            \* records the trace sink has received

stageVals == <<categories, datasetItems, batchUpload, batchJob, batchResult, evaluation>>
provider == <<files, jobs, jobStatus, outputFile>>
pollHist == <<queries, waits, statusLog>>
evalLocals ==
    <<evPc, evalIdx, correctPredictions, totalPredictions, evaluationResults, pending>>

vars ==
    <<run, memo, loc, att, faults, stageVals, upPc, trPc, provider, pollHist,
      evalLocals, sink>>

NoAccuracy == [kind |-> "absent", num |-> 0, den |-> 0]

Init ==
    /\ run = "running"
    /\ memo = {}
    /\ loc = {}
    /\ att = [s \in StageNames |-> 0]
    /\ faults = 0
    /\ categories = <<>>
    /\ datasetItems = <<>>
    /\ batchUpload = [fileId |-> 0, requestCount |-> 0]
    /\ batchJob = [batchId |-> 0, status |-> "queued"]
    /\ batchResult = [batchId |-> 0, results |-> <<>>]
    /\ evaluation =
        [accuracy |-> NoAccuracy, correctPredictions |-> 0, totalPredictions |-> 0,
         evaluationResults |-> <<>>]
    /\ upPc = "idle"
    /\ trPc = "idle"
    /\ files = 0
    /\ jobs = 0
    /\ jobStatus = "queued"
    /\ outputFile = <<>>
    /\ queries = 0
    /\ waits = 0
    /\ statusLog = <<>>
    /\ evPc = "idle"
    /\ evalIdx = 1
    /\ correctPredictions = 0
    /\ totalPredictions = 0
    /\ evaluationResults = <<>>
    /\ pending = <<>>
    /\ sink = <<>>

\* ------------------------------------------------------- stage executor
\* step.do(s, ...) is reached by run() and the engine holds no result for s:
\* the work function is invoked
StepDo(s) == run = "running" /\ s \notin memo /\ Preds(s) \subseteq loc

\* the work function returned: the engine persists the result, the stage's
\* retry counter is of no further use, and run() goes on
Complete(s) ==
    /\ memo' = memo \cup {s}
    /\ loc' = loc \cup {s}
    /\ att' = [att EXCEPT ![s] = 0]
    /\ run' = run

\* the work function threw an Error: the engine retries the stage while its
\* retry budget lasts, then fails the run
Throw(s) ==
    /\ IF att[s] < RetryLimit(s)
       THEN att' = [att EXCEPT ![s] = @ + 1] /\ run' = run
       ELSE att' = att /\ run' = "errored"
    /\ UNCHANGED <<memo, loc>>

Fault == faults < MaxFaults /\ faults' = faults + 1

\* step.do(s, ...) is reached and the engine holds a result for s: the call
\* returns that result without invoking the work function
Replay(s) ==
    /\ run = "running"
    /\ s \in memo
    /\ s \notin loc
    /\ Preds(s) \subseteq loc
    /\ loc' = loc \cup {s}
    /\ UNCHANGED <<run, memo, att, faults, stageVals, upPc, trPc, provider, pollHist,
                   evalLocals, sink>>

\* the instance is restarted: run() starts again from its first line, every
\* local binding and in-memory client is gone, persisted results stay
Crash ==
    /\ run = "running"
    /\ Fault
    /\ loc' = {}
    /\ upPc' = "idle"
    /\ trPc' = "idle"
    /\ evPc' = "idle"
    /\ evalIdx' = 1
    /\ correctPredictions' = 0
    /\ totalPredictions' = 0
    /\ evaluationResults' = <<>>
    /\ pending' = <<>>
    /\ UNCHANGED <<run, memo, att, stageVals, provider, pollHist, sink>>

\* --------------------------------------------------------------- loaders
CategoryList == <<"false", "true">>

LoadCategories ==
    /\ StepDo(CategoriesStage)
    /\ categories' = CategoryList
    /\ Complete(CategoriesStage)
    /\ UNCHANGED <<faults, datasetItems, batchUpload, batchJob, batchResult, evaluation,
                   upPc, trPc, provider, pollHist, evalLocals, sink>>

\* both fetches inside one step.do: a failed categories fetch discards the
\* dataset that was already loaded
LoadCategoriesFailDiscardsDataset ==
    /\ StepDo(CategoriesStage)
    /\ Fault
    /\ IF att[CategoriesStage] < RetryLimit(CategoriesStage)
       THEN att' = [att EXCEPT ![CategoriesStage] = @ + 1] /\ run' = run
       ELSE att' = att /\ run' = "errored"
    /\ memo' = memo \ {DatasetStage}
    /\ loc' = loc \ {DatasetStage}
    /\ UNCHANGED <<stageVals, upPc, trPc, provider, pollHist, evalLocals, sink>>

\* fetch rejects, or !response.ok
LoadCategoriesFail ==
    /\ StepDo(CategoriesStage)
    /\ Fault
    /\ Throw(CategoriesStage)
    /\ UNCHANGED <<stageVals, upPc, trPc, provider, pollHist, evalLocals, sink>>

LoadDataset ==
    /\ StepDo(DatasetStage)
    /\ \E d \in Snapshots : datasetItems' = MapItems(d)
    /\ Complete(DatasetStage)
    /\ UNCHANGED <<faults, categories, batchUpload, batchJob, batchResult, evaluation,
                   upPc, trPc, provider, pollHist, evalLocals, sink>>

\* langfuse.getDataset rejects: rethrown with the dataset name
LoadDatasetFail ==
    /\ StepDo(DatasetStage)
    /\ Fault
    /\ Throw(DatasetStage)
    /\ UNCHANGED <<stageVals, upPc, trPc, provider, pollHist, evalLocals, sink>>

\* ---------------------------------------------------------------- upload
\* files.create moved out of the step.do callback: it runs on every pass of run()
UploadCalledOutsideStep == run = "running" /\ Preds(UploadStage) \subseteq loc

\* openai.files.create is called inside the work function of the stage
UploadCalled == StepDo(UploadStage)

\* the provider accepts the file
UploadSend ==
    /\ UploadCalled
    /\ upPc = "idle"
    /\ files' = files + 1
    /\ upPc' = "sent"
    /\ UNCHANGED <<run, memo, loc, att, faults, stageVals, trPc, jobs, jobStatus,
                   outputFile, pollHist, evalLocals, sink>>

\* the request never reaches the provider
UploadSendFail ==
    /\ UploadCalled
    /\ upPc = "idle"
    /\ Fault
    /\ Throw(UploadStage)
    /\ UNCHANGED <<stageVals, upPc, trPc, provider, pollHist, evalLocals, sink>>

\* the request lines built by draining datasetItems in place
UploadReturnDrainsItems ==
    /\ run = "running"
    /\ upPc = "sent"
    /\ batchUpload' = [fileId |-> files, requestCount |-> Len(datasetItems)]
    /\ datasetItems' = <<>>
    /\ upPc' = "idle"
    /\ Complete(UploadStage)
    /\ UNCHANGED <<faults, categories, batchJob, batchResult, evaluation,
                   trPc, provider, pollHist, evalLocals, sink>>

\* files.create resolves and the work function returns
UploadReturn ==
    /\ run = "running"
    /\ upPc = "sent"
    /\ batchUpload' = [fileId |-> files, requestCount |-> Len(datasetItems)]
    /\ upPc' = "idle"
    /\ Complete(UploadStage)
    /\ UNCHANGED <<faults, categories, datasetItems, batchJob, batchResult, evaluation,
                   trPc, provider, pollHist, evalLocals, sink>>

\* the provider's response is lost: files.create rejects
UploadLost ==
    /\ run = "running"
    /\ upPc = "sent"
    /\ Fault
    /\ upPc' = "idle"
    /\ Throw(UploadStage)
    /\ UNCHANGED <<stageVals, trPc, provider, pollHist, evalLocals, sink>>

\* --------------------------------------------------------------- trigger
TriggerCalled == StepDo(TriggerStage)

\* the provider creates the job for batchUpload.fileId
TriggerSend ==
    /\ TriggerCalled
    /\ trPc = "idle"
    /\ jobs' = jobs + 1
    /\ jobStatus' = "queued"
    /\ outputFile' = <<>>
    /\ trPc' = "sent"
    /\ UNCHANGED <<run, memo, loc, att, faults, stageVals, upPc, files, pollHist,
                   evalLocals, sink>>

TriggerSendFail ==
    /\ TriggerCalled
    /\ trPc = "idle"
    /\ Fault
    /\ Throw(TriggerStage)
    /\ UNCHANGED <<stageVals, upPc, trPc, provider, pollHist, evalLocals, sink>>

TriggerReturn ==
    /\ run = "running"
    /\ trPc = "sent"
    /\ batchJob' = [batchId |-> jobs, status |-> jobStatus]
    /\ trPc' = "idle"
    /\ Complete(TriggerStage)
    /\ UNCHANGED <<faults, categories, datasetItems, batchUpload, batchResult, evaluation,
                   upPc, provider, pollHist, evalLocals, sink>>

TriggerLost ==
    /\ run = "running"
    /\ trPc = "sent"
    /\ Fault
    /\ trPc' = "idle"
    /\ Throw(TriggerStage)
    /\ UNCHANGED <<stageVals, upPc, provider, pollHist, evalLocals, sink>>

\* -------------------------------------------------------------- provider
\* the job the run polls moves towards a terminal status and stays there
ProviderAdvance ==
    /\ run = "running"
    /\ TriggerStage \in memo
    /\ PollStage \notin memo
    /\ jobStatus \in NonTerminal
    /\ \/ jobStatus = "queued" /\ jobStatus' = "running" /\ outputFile' = outputFile
       \/ jobStatus' \in FailureTerminal /\ outputFile' = outputFile
       \/ jobStatus' = "completed" /\ outputFile' \in OutputFiles
    /\ UNCHANGED <<run, memo, loc, att, faults, stageVals, upPc, trPc, files, jobs,
                   pollHist, evalLocals, sink>>

\* ------------------------------------------------------------------ poll
\* resultsText.trim().split('\n'): an empty text is one empty line
Lines(file) == IF file = <<>> THEN <<EmptyLine>> ELSE file

\* the loop with the two JSON.parse calls in a try/catch that skips the line
RECURSIVE DecodeLinesSkipping(_, _)
DecodeLinesSkipping(lines, results) ==
    IF lines = <<>> THEN [ok |-> TRUE, results |-> results]
    ELSE IF Head(lines).kind # "ok" THEN DecodeLinesSkipping(Tail(lines), results)
    ELSE DecodeLinesSkipping(Tail(lines),
                             Append(results, [id |-> Head(lines).id,
                                              category |-> Head(lines).category]))

\* the for loop over lines: JSON.parse of the envelope, then of the embedded
\* content; either one throws on a malformed line and the results are lost
RECURSIVE DecodeLines(_, _)
DecodeLines(lines, results) ==
    IF lines = <<>> THEN [ok |-> TRUE, results |-> results]
    ELSE IF Head(lines).kind # "ok" THEN [ok |-> FALSE, results |-> <<>>]
    ELSE DecodeLines(Tail(lines),
                     Append(results, [id |-> Head(lines).id,
                                      category |-> Head(lines).category]))

Decode(file) == DecodeLines(Lines(file), <<>>)

\* one status query of the work function
Query(outcome) ==
    /\ queries' = queries + 1
    /\ statusLog' = Append(statusLog, outcome)

\* openai.batches.retrieve rejects
PollQueryFail ==
    /\ StepDo(PollStage)
    /\ Fault
    /\ Query("neterr")
    /\ waits' = waits
    /\ Throw(PollStage)
    /\ UNCHANGED <<stageVals, upPc, trPc, provider, evalLocals, sink>>

\* batch.status === "completed", the result file is read and every line decodes
PollCompleted ==
    /\ StepDo(PollStage)
    /\ jobStatus = "completed"
    /\ Decode(outputFile).ok
    /\ Query(jobStatus)
    /\ waits' = waits
    /\ batchResult' = [batchId |-> batchJob.batchId, results |-> Decode(outputFile).results]
    /\ Complete(PollStage)
    /\ UNCHANGED <<faults, categories, datasetItems, batchUpload, batchJob, evaluation,
                   upPc, trPc, provider, evalLocals, sink>>

\* batch.status === "completed" and JSON.parse, or a property read, throws
PollDecodeError ==
    /\ StepDo(PollStage)
    /\ jobStatus = "completed"
    /\ ~Decode(outputFile).ok
    /\ Query(jobStatus)
    /\ waits' = waits
    /\ Throw(PollStage)
    /\ UNCHANGED <<faults, stageVals, upPc, trPc, provider, evalLocals, sink>>

\* batch.status === "completed" and openai.files.content rejects
PollDownloadFail ==
    /\ StepDo(PollStage)
    /\ jobStatus = "completed"
    /\ Fault
    /\ Query(jobStatus)
    /\ waits' = waits
    /\ Throw(PollStage)
    /\ UNCHANGED <<stageVals, upPc, trPc, provider, evalLocals, sink>>

\* the failure branch returning an empty result list instead of throwing
PollFailedResolvesEmpty ==
    /\ StepDo(PollStage)
    /\ jobStatus \in FailureTerminal
    /\ Query(jobStatus)
    /\ waits' = waits
    /\ batchResult' = [batchId |-> batchJob.batchId, results |-> <<>>]
    /\ Complete(PollStage)
    /\ UNCHANGED <<faults, categories, datasetItems, batchUpload, batchJob, evaluation,
                   upPc, trPc, provider, evalLocals, sink>>

\* failed, expired or cancelled: throw new Error("Batch processing failed ...")
PollFailed ==
    /\ StepDo(PollStage)
    /\ jobStatus \in FailureTerminal
    /\ Query(jobStatus)
    /\ waits' = waits
    /\ Throw(PollStage)
    /\ UNCHANGED <<faults, stageVals, upPc, trPc, provider, evalLocals, sink>>

\* the last branch returning instead of throwing while the job is in progress
PollStillProcessingReturns ==
    /\ StepDo(PollStage)
    /\ jobStatus \notin FailureTerminal \cup {"completed"}
    /\ Query(jobStatus)
    /\ waits' = waits
    /\ Complete(PollStage)
    /\ UNCHANGED <<faults, stageVals, upPc, trPc, provider, evalLocals, sink>>

\* the last branch querying again inside the attempt instead of throwing
PollStillProcessingLoopsInside ==
    /\ StepDo(PollStage)
    /\ jobStatus \notin FailureTerminal \cup {"completed"}
    /\ Query(jobStatus)
    /\ waits' = waits + 1
    /\ UNCHANGED <<run, memo, loc, att, faults, stageVals, upPc, trPc, provider,
                   evalLocals, sink>>

\* any other status: throw new Error("Batch still processing ...")
PollStillProcessing ==
    /\ StepDo(PollStage)
    /\ jobStatus \notin FailureTerminal \cup {"completed"}
    /\ Query(jobStatus)
    /\ waits' = waits + 1
    /\ Throw(PollStage)
    /\ UNCHANGED <<faults, stageVals, upPc, trPc, provider, evalLocals, sink>>

\* -------------------------------------------------------------- evaluate
\* find with a predicate that does not compare the ids: the first item, if any
FindFirst(items, id) == IF Len(items) > 0 THEN 1 ELSE 0

\* datasetItems.find(item => item.id === id): index of the first match, 0 if none
RECURSIVE FindFrom(_, _, _)
FindFrom(items, id, i) ==
    IF i > Len(items) THEN 0
    ELSE IF items[i].id = id THEN i
    ELSE FindFrom(items, id, i + 1)

Find(items, id) == FindFrom(items, id, 1)

\* correctPredictions / totalPredictions in floating point: 0 / 0 is NaN
Divide(c, t) ==
    IF t = 0 THEN [kind |-> "NaN", num |-> 0, den |-> 0]
    ELSE [kind |-> "number", num |-> c, den |-> t]

ItemTrace(item, result, isCorrect) ==
    [name |-> "rumor-classification", id |-> result.id,
     expected |-> item.expectedCategory, predicted |-> result.category,
     correct |-> isCorrect]

SummaryTrace ==
    [name |-> "batch-classification-experiment",
     accuracy |-> Divide(correctPredictions, totalPredictions),
     correctPredictions |-> correctPredictions,
     totalPredictions |-> totalPredictions,
     evaluationResults |-> evaluationResults]

\* a comparison that takes "True" and "true" for the same category
IsCorrectIgnoringCase(expected, predicted) ==
    expected = predicted \/ {expected, predicted} = {"true", "True"}

\* originalItem.expectedCategory === result.category
IsCorrect(expected, predicted) == expected = predicted

\* correctPredictions++ on every matched result
NextCorrectAlways(c, isCorrect) == c + 1

\* if (isCorrect) correctPredictions++
NextCorrect(c, isCorrect) == IF isCorrect THEN c + 1 ELSE c

\* totalPredictions++ in an else branch of if (isCorrect)
NextTotalOnlyIfWrong(t, isCorrect) == IF isCorrect THEN t ELSE t + 1

\* totalPredictions++
NextTotal(t, isCorrect) == t + 1

\* the work function starts: fresh client, empty list, counters at zero
EvalStart ==
    /\ StepDo(EvaluateStage)
    /\ evPc = "idle"
    /\ evPc' = "loop"
    /\ evalIdx' = 1
    /\ correctPredictions' = 0
    /\ totalPredictions' = 0
    /\ evaluationResults' = <<>>
    /\ pending' = <<>>
    /\ UNCHANGED <<run, memo, loc, att, faults, stageVals, upPc, trPc, provider, pollHist,
                   sink>>

\* one iteration of for (const result of batchResult.results)
EvalItem ==
    /\ run = "running"
    /\ evPc = "loop"
    /\ evalIdx <= Len(batchResult.results)
    /\ LET result == batchResult.results[evalIdx]
           k == Find(datasetItems, result.id)
       IN
       IF k = 0
       THEN UNCHANGED <<correctPredictions, totalPredictions, evaluationResults, pending>>
       ELSE LET originalItem == datasetItems[k]
                isCorrect == IsCorrect(originalItem.expectedCategory, result.category)
            IN
            /\ correctPredictions' = NextCorrect(correctPredictions, isCorrect)
            /\ totalPredictions' = NextTotal(totalPredictions, isCorrect)
            /\ pending' = Append(pending, ItemTrace(originalItem, result, isCorrect))
            /\ evaluationResults' =
                Append(evaluationResults,
                       [id |-> result.id, expected |-> originalItem.expectedCategory,
                        predicted |-> result.category, correct |-> isCorrect])
    /\ evalIdx' = evalIdx + 1
    /\ UNCHANGED <<run, memo, loc, att, faults, stageVals, upPc, trPc, provider, pollHist,
                   evPc, sink>>

\* after the loop: the summary trace is submitted and flushAsync is called
EvalSummary ==
    /\ run = "running"
    /\ evPc = "loop"
    /\ evalIdx > Len(batchResult.results)
    /\ pending' = Append(pending, SummaryTrace)
    /\ evPc' = "flushing"
    /\ UNCHANGED <<run, memo, loc, att, faults, stageVals, upPc, trPc, provider, pollHist,
                   evalIdx, correctPredictions, totalPredictions, evaluationResults, sink>>

\* flushAsync resolves: the sink holds every record the client had submitted
EvalFlush ==
    /\ run = "running"
    /\ evPc = "flushing"
    /\ sink' = sink \o pending
    /\ pending' = <<>>
    /\ evPc' = "flushed"
    /\ UNCHANGED <<run, memo, loc, att, faults, stageVals, upPc, trPc, provider, pollHist,
                   evalIdx, correctPredictions, totalPredictions, evaluationResults>>

\* flushAsync rejects: the records may or may not have reached the sink
EvalFlushFail ==
    /\ run = "running"
    /\ evPc = "flushing"
    /\ Fault
    /\ sink' \in {sink, sink \o pending}
    /\ pending' = <<>>
    /\ evPc' = "idle"
    /\ evalIdx' = 1
    /\ correctPredictions' = 0
    /\ totalPredictions' = 0
    /\ evaluationResults' = <<>>
    /\ Throw(EvaluateStage)
    /\ UNCHANGED <<stageVals, upPc, trPc, provider, pollHist>>

\* flushAsync called without await: the function returns while the flush runs
EvalMayReturnUnflushed == evPc \in {"flushing", "flushed"}

\* the position from which the work function returns its value
EvalMayReturn == evPc = "flushed"

\* return { accuracy, correctPredictions, totalPredictions, evaluationResults }
EvalReturn ==
    /\ run = "running"
    /\ EvalMayReturn
    /\ evaluation' =
        [accuracy |-> Divide(correctPredictions, totalPredictions),
         correctPredictions |-> correctPredictions,
         totalPredictions |-> totalPredictions,
         evaluationResults |-> evaluationResults]
    /\ evPc' = "idle"
    /\ evalIdx' = 1
    /\ correctPredictions' = 0
    /\ totalPredictions' = 0
    /\ evaluationResults' = <<>>
    /\ Complete(EvaluateStage)
    /\ UNCHANGED <<faults, categories, datasetItems, batchUpload, batchJob, batchResult,
                   upPc, trPc, provider, pollHist, pending, sink>>

\* ------------------------------------------------------------------- run
\* the object run() returns
RunResult ==
    [itemsProcessed |-> Len(datasetItems), batchId |-> batchResult.batchId,
     accuracy |-> evaluation.accuracy,
     correctPredictions |-> evaluation.correctPredictions,
     totalPredictions |-> evaluation.totalPredictions,
     categoriesUsed |-> categories]

RunReturn ==
    /\ run = "running"
    /\ loc = StageNames
    /\ run' = "complete"
    /\ UNCHANGED <<memo, loc, att, faults, stageVals, upPc, trPc, provider, pollHist,
                   evalLocals, sink>>

Next ==
    \/ LoadCategories
    \/ LoadCategoriesFail
    \/ LoadDataset
    \/ LoadDatasetFail
    \/ UploadSend
    \/ UploadSendFail
    \/ UploadReturn
    \/ UploadLost
    \/ TriggerSend
    \/ TriggerSendFail
    \/ TriggerReturn
    \/ TriggerLost
    \/ ProviderAdvance
    \/ PollCompleted
    \/ PollDecodeError
    \/ PollFailed
    \/ PollStillProcessing
    \/ PollQueryFail
    \/ PollDownloadFail
    \/ EvalStart
    \/ EvalItem
    \/ EvalSummary
    \/ EvalFlush
    \/ EvalFlushFail
    \/ EvalReturn
    \/ RunReturn
    \/ \E s \in StageNames : Replay(s)
    \/ Crash

Spec == Init /\ [][Next]_vars

\* The run under the engine's scheduling: a run that can take a step (an
\* attempt that is due, a call that is awaited, a replay after a restart)
\* eventually takes one.
FairSpec == Init /\ [][Next]_vars /\ WF_vars(Next)

\* ------------------------------------------------ evaluator specification
\* The evaluate-and-log-results stage over a wider range of inputs: the state
\* in which poll-batch-completion has just returned on a run without failures,
\* for every dataset over two item ids and every decodable output file of up
\* to MaxResults lines that echoes the id "a" with a predicted category or a
\* foreign id.
EvalSnapshots == SnapshotsOver({"a", "b"})

\* what the model may answer as category: a title, or a title in another case
PredictedTitles == Titles \cup {"True"}
EvalFiles ==
    {f \in SeqsUpTo(GoodLines({"a"}, PredictedTitles) \cup GoodLines({"z"}, {"true"}),
                    MaxResults) : Decode(f).ok}

EvalInit ==
    /\ run = "running"
    /\ memo = Preds(EvaluateStage)
    /\ loc = Preds(EvaluateStage)
    /\ att = [s \in StageNames |-> 0]
    /\ faults = 0
    /\ categories = CategoryList
    /\ \E d \in EvalSnapshots : datasetItems = MapItems(d)
    /\ batchUpload = [fileId |-> 1, requestCount |-> Len(datasetItems)]
    /\ batchJob = [batchId |-> 1, status |-> "queued"]
    /\ \E f \in EvalFiles :
        /\ outputFile = f
        /\ batchResult = [batchId |-> 1, results |-> Decode(f).results]
    /\ evaluation =
        [accuracy |-> NoAccuracy, correctPredictions |-> 0, totalPredictions |-> 0,
         evaluationResults |-> <<>>]
    /\ upPc = "idle"
    /\ trPc = "idle"
    /\ files = 1
    /\ jobs = 1
    /\ jobStatus = "completed"
    /\ queries = 1
    /\ waits = 0
    /\ statusLog = <<"completed">>
    /\ evPc = "idle"
    /\ evalIdx = 1
    /\ correctPredictions = 0
    /\ totalPredictions = 0
    /\ evaluationResults = <<>>
    /\ pending = <<>>
    /\ sink = <<>>

EvalNext ==
    \/ EvalStart
    \/ EvalItem
    \/ EvalSummary
    \/ EvalFlush
    \/ EvalFlushFail
    \/ EvalReturn
    \/ RunReturn
    \/ \E s \in StageNames : Replay(s)
    \/ Crash

EvalSpec == EvalInit /\ [][EvalNext]_vars

\* =================================================================== claims
Last(q) == q[Len(q)]

SummaryName == "batch-classification-experiment"

\* ---- C1 (as stated): once a status query has returned failed, expired or
\* cancelled, poll-batch-completion issues no further status query, so a
\* failure terminal status is always the last entry of the query history.
C1_NoPollAfterFailure ==
    \A i \in 1..Len(statusLog) : statusLog[i] \in FailureTerminal => i = Len(statusLog)

\* ---- C2: the poll stage resolves only on a query that returned completed,
\* with exactly the decoded lines of the output file; when the queries before
\* it returned n non-terminal statuses, it has waited exactly n times (n within
\* the retry limit) and issued n + 1 queries; and on a run without transport
\* failures such a history over a decodable file has resolved the stage.
NonTerminalThenCompleted(log) ==
    /\ log # <<>>
    /\ Last(log) = "completed"
    /\ \A i \in 1..(Len(log) - 1) : log[i] \in NonTerminal

IsDecodedFrom(results, file) ==
    /\ Len(results) = Len(file)
    /\ Len(file) > 0
    /\ \A i \in 1..Len(file) :
        /\ file[i].kind = "ok"
        /\ results[i].id = file[i].id
        /\ results[i].category = file[i].category

C2_PollWaitsThenResolves ==
    /\ PollStage \in memo =>
        /\ statusLog # <<>>
        /\ Last(statusLog) = "completed"
        /\ IsDecodedFrom(batchResult.results, outputFile)
        /\ NonTerminalThenCompleted(statusLog) =>
            /\ waits = Len(statusLog) - 1
            /\ queries = Len(statusLog)
            /\ waits <= PollRetryLimit
    /\ ( /\ NonTerminalThenCompleted(statusLog)
         /\ faults = 0
         /\ outputFile # <<>>
         /\ \A i \in 1..Len(outputFile) : outputFile[i].kind = "ok" )
        => PollStage \in memo

\* statuses [queued, running, completed]: resolved after exactly 2 waits
C2_Witness ==
    /\ PollStage \in memo
    /\ statusLog = <<"queued", "running", "completed">>
    /\ waits = 2
    /\ queries = 3

\* ---- C3: once a stage's result is persisted it stays persisted and unchanged,
\* and the stage's work is not executed again: no file upload after
\* upload-batch-to-openai completed, no job creation after trigger-batch-api
\* completed, no status query after poll-batch-completion completed, no trace
\* after evaluate-and-log-results completed, whatever restarts follow.
C3_MemoizedStageNotRerun ==
    [][ /\ memo \subseteq memo'
        /\ CategoriesStage \in memo => categories' = categories
        /\ DatasetStage \in memo => datasetItems' = datasetItems
        /\ UploadStage \in memo => (batchUpload' = batchUpload /\ files' = files)
        /\ TriggerStage \in memo => (batchJob' = batchJob /\ jobs' = jobs)
        /\ PollStage \in memo => (batchResult' = batchResult /\ queries' = queries)
        /\ EvaluateStage \in memo => (evaluation' = evaluation /\ sink' = sink)
      ]_vars

\* after a restart that followed trigger-batch-api, the replay has passed
\* step.do("upload-batch-to-openai") and the provider still holds one file
C3_Witness ==
    /\ TriggerStage \in memo
    /\ loc = {CategoriesStage, DatasetStage, UploadStage}
    /\ files = 1
    /\ jobs = 1

\* ---- C4 (as stated): in every execution of a run the provider receives at
\* most one file and creates at most one job.
C4_AtMostOneUploadAndJob == files <= 1 /\ jobs <= 1

\* ---- C5 (as stated): when totalPredictions is 0 the division is not
\* performed: the stage's result and the summary trace carry no accuracy value.
C5_NoAccuracyWithoutTotals ==
    /\ (EvaluateStage \in memo /\ evaluation.totalPredictions = 0) =>
        evaluation.accuracy.kind = "absent"
    /\ \A i \in 1..Len(sink) :
        (sink[i].name = SummaryName /\ sink[i].totalPredictions = 0) =>
            sink[i].accuracy.kind = "absent"

\* ---- C6: a result whose id is the id of no loaded DatasetItem adds nothing:
\* after each iteration the counters count only the processed results whose id
\* is loaded, and every EvaluationRecord and every per-item trace carries a
\* loaded id.
Loaded(id) == \E k \in 1..Len(datasetItems) : datasetItems[k].id = id

MatchedAmong(results, n) == Cardinality({i \in 1..n : Loaded(results[i].id)})

CorrectAmong(results, n) ==
    Cardinality({i \in 1..n :
        \E k \in 1..Len(datasetItems) :
            /\ datasetItems[k].id = results[i].id
            /\ datasetItems[k].expectedCategory = results[i].category})

ItemTracesLoaded(records) ==
    \A j \in 1..Len(records) :
        records[j].name = "rumor-classification" => Loaded(records[j].id)

C6_UnmatchedResultsExcluded ==
    /\ evPc # "idle" =>
        /\ totalPredictions = MatchedAmong(batchResult.results, evalIdx - 1)
        /\ correctPredictions = CorrectAmong(batchResult.results, evalIdx - 1)
        /\ Len(evaluationResults) = totalPredictions
        /\ \A j \in 1..Len(evaluationResults) : Loaded(evaluationResults[j].id)
    /\ ItemTracesLoaded(pending)
    /\ ItemTracesLoaded(sink)
    /\ EvaluateStage \in memo =>
        /\ evaluation.totalPredictions =
            MatchedAmong(batchResult.results, Len(batchResult.results))
        /\ evaluation.correctPredictions =
            CorrectAmong(batchResult.results, Len(batchResult.results))
        /\ Len(evaluation.evaluationResults) = evaluation.totalPredictions
        /\ \A j \in 1..Len(evaluation.evaluationResults) :
            Loaded(evaluation.evaluationResults[j].id)

\* the stage has completed over a list holding a result of a loaded id and a
\* result of a foreign id: one record, one counted
C6_Witness ==
    /\ EvaluateStage \in memo
    /\ \E i \in 1..Len(batchResult.results) : ~Loaded(batchResult.results[i].id)
    /\ \E i \in 1..Len(batchResult.results) : Loaded(batchResult.results[i].id)
    /\ evaluation.totalPredictions = 1
    /\ Len(batchResult.results) = 2

\* ---- C7 (as stated): evaluationResults holds at most one record per
\* DatasetItem id, whatever list the poller returned.
C7_AtMostOneRecordPerItem ==
    EvaluateStage \in memo =>
        \A i, j \in 1..Len(evaluation.evaluationResults) :
            evaluation.evaluationResults[i].id = evaluation.evaluationResults[j].id
                => i = j

\* ---- C8 (as stated): a record is emitted, and counted, only for an item
\* that has a ground-truth label.
C8_RecordsNeedGroundTruth ==
    EvaluateStage \in memo =>
        /\ \A j \in 1..Len(evaluation.evaluationResults) :
            evaluation.evaluationResults[j].expected # Absent
        /\ evaluation.totalPredictions =
            Cardinality({i \in 1..Len(batchResult.results) :
                \E k \in 1..Len(datasetItems) :
                    /\ datasetItems[k].id = batchResult.results[i].id
                    /\ datasetItems[k].expectedCategory # Absent})

\* ---- C9: while the completed job's output file holds a malformed line, the
\* poll stage has no result, the evaluate stage has not run and nothing was
\* traced or returned; once the stage's attempts are used up the run has
\* failed; and a result list the poll stage returned has one entry per line.
HasMalformedLine(file) == \E i \in 1..Len(file) : file[i].kind # "ok"

C9_MalformedLineFailsRun ==
    /\ (jobStatus = "completed" /\ HasMalformedLine(outputFile)) =>
        /\ PollStage \notin memo
        /\ EvaluateStage \notin memo
        /\ batchResult.results = <<>>
        /\ evPc = "idle"
        /\ pending = <<>>
        /\ sink = <<>>
        /\ run # "complete"
        /\ queries = PollRetryLimit + 1 => run = "errored"
    /\ PollStage \in memo => Len(batchResult.results) = Len(outputFile)

\* a file whose second line is malformed, after a first line that decodes:
\* the run has failed
C9_Witness ==
    /\ jobStatus = "completed"
    /\ Len(outputFile) = 2
    /\ outputFile[1].kind = "ok"
    /\ outputFile[2].kind # "ok"
    /\ statusLog # <<>>
    /\ Last(statusLog) = "completed"
    /\ run = "errored"

\* ---- C10: when evaluate-and-log-results has completed, its client holds no
\* unflushed record and the sink holds the summary trace of the returned
\* counts and a per-item trace for every returned EvaluationRecord.
C10_TracesFlushedBeforeReturn ==
    EvaluateStage \in memo =>
        /\ pending = <<>>
        /\ \E i \in 1..Len(sink) :
            /\ sink[i].name = SummaryName
            /\ sink[i].evaluationResults = evaluation.evaluationResults
            /\ sink[i].correctPredictions = evaluation.correctPredictions
            /\ sink[i].totalPredictions = evaluation.totalPredictions
        /\ \A j \in 1..Len(evaluation.evaluationResults) :
            \E i \in 1..Len(sink) :
                /\ sink[i].name = "rumor-classification"
                /\ sink[i].id = evaluation.evaluationResults[j].id
                /\ sink[i].predicted = evaluation.evaluationResults[j].predicted

\* the run has returned after tracing two items and the summary
C10_Witness ==
    /\ run = "complete"
    /\ EvaluateStage \in memo
    /\ Len(evaluation.evaluationResults) = 2
    /\ Len(sink) >= 3
    /\ pending = <<>>

\* ---- C11 (as stated): over any execution of a run, re-attempts of
\* evaluate-and-log-results included, the trace sink receives the summary
\* record at most once, and when the stage has completed the sink holds exactly
\* one summary record and one per-item record for each returned
\* EvaluationRecord.
SummaryCount(records) ==
    Cardinality({i \in 1..Len(records) : records[i].name = SummaryName})

C11_OneSummaryPerRun ==
    /\ SummaryCount(sink) <= 1
    /\ EvaluateStage \in memo =>
        /\ SummaryCount(sink) = 1
        /\ Len(sink) = evaluation.totalPredictions + 1

\* ---- C12: no stage starts before its predecessors have completed: work of
\* upload-batch-to-openai is in progress or done only when both loaders have
\* completed, work of trigger-batch-api only when the upload has, a status
\* query only when the trigger has, and work of evaluate-and-log-results only
\* when poll-batch-completion has completed on a query that returned
\* completed.
C12_StagesStartAfterPredecessors ==
    /\ (upPc # "idle" \/ files > 0 \/ UploadStage \in memo) =>
        {CategoriesStage, DatasetStage} \subseteq memo
    /\ upPc # "idle" => {CategoriesStage, DatasetStage} \subseteq loc
    /\ (trPc # "idle" \/ jobs > 0 \/ TriggerStage \in memo) => UploadStage \in memo
    /\ trPc # "idle" => UploadStage \in loc
    /\ (queries > 0 \/ PollStage \in memo) => TriggerStage \in memo
    /\ (evPc # "idle" \/ pending # <<>> \/ sink # <<>> \/ EvaluateStage \in memo) =>
        /\ PollStage \in memo
        /\ statusLog # <<>>
        /\ Last(statusLog) = "completed"
    /\ evPc # "idle" => PollStage \in loc

\* the evaluate stage is in its loop after the poll stage waited and resolved
C12_Witness ==
    /\ evPc = "loop"
    /\ memo = StageNames \ {EvaluateStage}
    /\ waits > 0
    /\ files = 1
    /\ jobs = 1

\* ---- C13: the loaders are independent: once a loader has completed, no step
\* of the run (a failed attempt of the other loader included) executes its
\* work again, drops its result or changes it; a loader's failed attempt that
\* finds its retry budget used up fails the run; and the upload is sent only
\* when both loaders have completed.
C13_LoadersRetryIndependently ==
    [][ /\ DatasetStage \in memo =>
            /\ DatasetStage \in memo'
            /\ datasetItems' = datasetItems
            /\ att'[DatasetStage] = att[DatasetStage]
            /\ ~(LoadDataset \/ LoadDatasetFail)
        /\ CategoriesStage \in memo =>
            /\ CategoriesStage \in memo'
            /\ categories' = categories
            /\ att'[CategoriesStage] = att[CategoriesStage]
            /\ ~(LoadCategories \/ LoadCategoriesFail)
        /\ (LoadCategoriesFail /\ att[CategoriesStage] = DefaultRetryLimit) =>
            run' = "errored"
        /\ (LoadDatasetFail /\ att[DatasetStage] = DefaultRetryLimit) =>
            run' = "errored"
        /\ files' # files => {CategoriesStage, DatasetStage} \subseteq memo
        /\ run = "errored" => run' = "errored"
      ]_vars

\* the categories loader has failed for good while the dataset loader had
\* completed: the run has failed and holds the dataset it loaded
C13_Witness ==
    /\ run = "errored"
    /\ DatasetStage \in memo
    /\ CategoriesStage \notin memo
    /\ att[CategoriesStage] = DefaultRetryLimit
    /\ datasetItems # <<>>
    /\ files = 0

\* ---- C14: a stage that fails for good fails the run: an attempt that throws
\* when the stage's retry budget is used up leaves the run failed; in a failed
\* run the evaluate stage has no result and no stage after the first one
\* without a result has done any work; and a failed run takes no further step,
\* so it executes nothing more and never returns.
ThrowingAttempt(s) ==
    CASE s = CategoriesStage -> LoadCategoriesFail
      [] s = DatasetStage -> LoadDatasetFail
      [] s = UploadStage -> UploadSendFail \/ UploadLost
      [] s = TriggerStage -> TriggerSendFail \/ TriggerLost
      [] s = PollStage ->
            \/ PollQueryFail
            \/ PollDecodeError
            \/ PollDownloadFail
            \/ PollFailed
            \/ PollStillProcessing
      [] s = EvaluateStage -> EvalFlushFail

C14_StageFailureFailsRun ==
    [][ /\ \A s \in StageNames :
            (ThrowingAttempt(s) /\ att[s] = RetryLimit(s)) => run' = "errored"
        /\ run' = "errored" =>
            /\ EvaluateStage \notin memo'
            /\ {CategoriesStage, DatasetStage} \subseteq memo' \/ files' = 0
            /\ UploadStage \in memo' \/ jobs' = 0
            /\ TriggerStage \in memo' \/ queries' = 0
            /\ PollStage \in memo' \/ (sink' = <<>> /\ pending' = <<>>)
        /\ run # "errored"
      ]_vars

\* trigger-batch-api has failed for good after the upload completed: the run
\* has failed without a status query or a trace
C14_Witness ==
    /\ run = "errored"
    /\ UploadStage \in memo
    /\ TriggerStage \notin memo
    /\ att[TriggerStage] = DefaultRetryLimit
    /\ queries = 0
    /\ sink = <<>>

\* ---- C15: the evaluator returns accuracy = correctPredictions /
\* totalPredictions, a matched result counting as correct exactly when its
\* category is the same string as the item's expectedCategory: over the one
\* item {id a, expectedCategory "true"}, the result {a, "true"} gives 1/1
\* with counts 1 and 1, and {a, "false"}, like {a, "True"}, gives 0/1 with
\* counts 0 and 1.
OneItemA ==
    /\ Len(datasetItems) = 1
    /\ datasetItems[1].id = "a"
    /\ datasetItems[1].expectedCategory = "true"

OneResultA(title) == batchResult.results = <<[id |-> "a", category |-> title]>>

Returned(c, t) ==
    /\ evaluation.correctPredictions = c
    /\ evaluation.totalPredictions = t
    /\ evaluation.accuracy = [kind |-> "number", num |-> c, den |-> t]

C15_AccuracyIsCorrectOverTotal ==
    EvaluateStage \in memo =>
        /\ evaluation.correctPredictions =
            CorrectAmong(batchResult.results, Len(batchResult.results))
        /\ evaluation.totalPredictions > 0 =>
            evaluation.accuracy =
                [kind |-> "number", num |-> evaluation.correctPredictions,
                 den |-> evaluation.totalPredictions]
        /\ (OneItemA /\ OneResultA("true")) => Returned(1, 1)
        /\ (OneItemA /\ OneResultA("false")) => Returned(0, 1)
        /\ (OneItemA /\ OneResultA("True")) => Returned(0, 1)

\* the stage has returned 1/1 for the item a and the result {a, "true"}
C15_Witness ==
    /\ EvaluateStage \in memo
    /\ OneItemA
    /\ OneResultA("true")
    /\ evaluation.accuracy = [kind |-> "number", num |-> 1, den |-> 1]

\* ---- C16: correctPredictions never exceeds totalPredictions: after every
\* iteration of the loop, in every summary trace and in the returned result.
C16_CorrectAtMostTotal ==
    /\ 0 <= correctPredictions
    /\ correctPredictions <= totalPredictions
    /\ totalPredictions <= evalIdx - 1
    /\ evaluation.correctPredictions <= evaluation.totalPredictions
    /\ \A i \in 1..Len(sink) :
        sink[i].name = SummaryName => sink[i].correctPredictions <= sink[i].totalPredictions
    /\ \A i \in 1..Len(pending) :
        pending[i].name = SummaryName =>
            pending[i].correctPredictions <= pending[i].totalPredictions

\* in the loop, after a correct first result of two: both counters at 1
C16_Witness ==
    /\ evPc = "loop"
    /\ evalIdx = 2
    /\ Len(batchResult.results) = 2
    /\ correctPredictions = 1
    /\ totalPredictions = 1

\* ---- C17: the poll stage makes at most PollRetryLimit + 1 attempts, each
\* failed attempt using one retry; when that many attempts have been made and
\* the stage has no result the run has failed; and every run eventually has
\* returned or has failed.
C17_PollBoundedRunTerminates ==
    /\ [](/\ queries <= PollRetryLimit + 1
          /\ att[PollStage] <= PollRetryLimit
          /\ waits <= queries
          /\ PollStage \notin memo =>
                (run = "running" => queries = att[PollStage])
          /\ (queries = PollRetryLimit + 1 /\ PollStage \notin memo) => run = "errored")
    /\ <>(run \in {"complete", "errored"})

\* every query found the job in progress: after PollRetryLimit + 1 attempts the
\* run has failed
C17_Witness ==
    /\ run = "errored"
    /\ queries = PollRetryLimit + 1
    /\ waits = PollRetryLimit + 1
    /\ \A i \in 1..Len(statusLog) : statusLog[i] \in NonTerminal

\* ---- C18: a stage's output is not written after the stage completed: every
\* step leaves categories, datasetItems, batchUpload, batchJob and batchResult
\* as they are once their stage has a result, a step writes the output of at
\* most one stage, and that stage is one without a result; so each output has
\* at the end of the run the value its stage returned.
Outputs == <<categories, datasetItems, batchUpload, batchJob, batchResult, evaluation>>
OutputOf ==
    <<CategoriesStage, DatasetStage, UploadStage, TriggerStage, PollStage, EvaluateStage>>

C18_StageOutputsImmutable ==
    [][ /\ \A i \in 1..5 : OutputOf[i] \in memo => Outputs'[i] = Outputs[i]
        /\ \A i, j \in 1..6 :
            (Outputs'[i] # Outputs[i] /\ Outputs'[j] # Outputs[j]) => i = j
        /\ \A i \in 1..6 :
            Outputs'[i] # Outputs[i] => (OutputOf[i] \notin memo /\ OutputOf[i] \in memo')
      ]_vars

\* the run has returned after a failure or restart, over a loaded item and a
\* decoded result: the outputs still agree with each other
C18_Witness ==
    /\ run = "complete"
    /\ faults > 0
    /\ datasetItems # <<>>
    /\ batchUpload.requestCount = Len(datasetItems)
    /\ batchResult.results # <<>>
    /\ batchResult.batchId = batchJob.batchId

\* ---- C19: at the end of evaluate-and-log-results, totalPredictions is the
\* number of entries of the result list whose id is a loaded item's id (an id
\* that occurs twice counted twice), evaluationResults has that many records,
\* and correctPredictions is the number of its records with correct = true.
CorrectRecords(records) ==
    Cardinality({j \in 1..Len(records) : records[j].correct})

CountsMatchRecords(total, correct, records) ==
    /\ total = MatchedAmong(batchResult.results, Len(batchResult.results))
    /\ Len(records) = total
    /\ correct = CorrectRecords(records)

C19_CountsMatchRecords ==
    /\ evPc \in {"flushing", "flushed"} =>
        CountsMatchRecords(totalPredictions, correctPredictions, evaluationResults)
    /\ EvaluateStage \in memo =>
        CountsMatchRecords(evaluation.totalPredictions, evaluation.correctPredictions,
                           evaluation.evaluationResults)

\* the id a occurs twice in the result list, once with the expected category:
\* two records, one of them correct
C19_Witness ==
    /\ EvaluateStage \in memo
    /\ Len(batchResult.results) = 2
    /\ batchResult.results[1].id = "a"
    /\ batchResult.results[2].id = "a"
    /\ Loaded("a")
    /\ evaluation.totalPredictions = 2
    /\ Len(evaluation.evaluationResults) = 2
    /\ evaluation.correctPredictions = 1

====
